---- MODULE Spec2Model ----
(***************************************************************************)
(* Model of the RIPE Atlas test-data tools:                                *)
(*   convert_binary_tests_to_json.py  (parse_sockaddr, convert_binary_file,*)
(*                                     main)                               *)
(*   validate_json_results.py         (validate_json_result)               *)
(* Bytes are integers 0..255, Python bytes objects are sequences of them,  *)
(* Python str values are sequences of one-character strings, Python dicts  *)
(* are records with exactly the keys the code stores.                      *)
(***************************************************************************)
EXTENDS Integers, Sequences, FiniteSets, TLC

VARIABLES
    sa_data, sa_family, sa_result, sa_pc,          \* one call of parse_sockaddr
    written, nrec, file, document, raised, cv_pc,  \* one call of convert_binary_file
    argc, input_exists, in_files, out_tree, out_tree0, net_files, next_file,
    attempted, log, exit_status, m_pc,             \* one run of main()
    v_line, v_result, v_pc                         \* one call of validate_json_result

sockVars == <<sa_data, sa_family, sa_result, sa_pc>>
convVars == <<written, nrec, file, document, raised, cv_pc>>
mainVars == <<argc, input_exists, in_files, out_tree, out_tree0, net_files,
              next_file, attempted, log, exit_status, m_pc>>
valVars == <<v_line, v_result, v_pc>>
vars == <<sockVars, convVars, mainVars, valVars>>

-----------------------------------------------------------------------------
(* Bounds of the model. *)

MaxSpanLen == 28      \* longest byte span handed to parse_sockaddr
MaxRecords == 2       \* most records written to one capture file
MaxPacketLen == 102   \* longest payload of a sample packet record
MaxFiles == 3         \* most .net files under the input root
MaxResults == 2       \* most entries of a "result" array

-----------------------------------------------------------------------------
(* Response type and address family constants. *)

RESP_PACKET == 1
RESP_SOCKNAME == 2
RESP_DSTADDR == 3
RESP_PEERNAME == 4
RESP_READ_ERROR == 4
RESP_DATA == 7
RESP_TIMEOUT == 9

AF_INET == 2
AF_INET6 == 10
AF_INET6_LOCAL == 28

-----------------------------------------------------------------------------
(* Python values. *)

\* None where a dict is expected (the return value of parse_sockaddr).
None == [None |-> TRUE]

\* None where a str is expected (the "address" key).
NoneStr == <<"None">>

Min(a, b) == IF a < b THEN a ELSE b

\* data[a:b] for 0 <= a, 0 <= b: the slice is clipped to the object's length.
Slice(data, a, b) == SubSeq(data, a + 1, Min(b, Len(data)))

\* data[a:]
SliceFrom(data, a) == SubSeq(data, a + 1, Len(data))

\* struct.unpack('<H', b)[0] and struct.unpack('>H', b)[0] on a 2-byte object.
unpack_LE16(b) == b[1] + 256 * b[2]

unpack_BE16(b) == 256 * b[1] + b[2]

\* struct.unpack('<I', b)[0] on a 4-byte object (the model's samples keep the
\* top byte below 128 so that the value fits TLC's integers).
unpack_LE32(b) == b[1] + 256 * b[2] + 65536 * b[3] + 16777216 * b[4]

\* struct.unpack raises struct.error unless the buffer has the format's size.
unpack_raises(b, n) == Len(b) # n

DecDigits == <<"0", "1", "2", "3", "4", "5", "6", "7", "8", "9">>

HexDigits == <<"0", "1", "2", "3", "4", "5", "6", "7", "8", "9",
               "a", "b", "c", "d", "e", "f">>

RECURSIVE DecStr(_)
\* str(n) / "%d" for n >= 0.
DecStr(n) == IF n < 10 THEN <<DecDigits[n + 1]>>
             ELSE DecStr(n \div 10) \o <<DecDigits[(n % 10) + 1]>>

RECURSIVE HexStr(_)
\* "%x" for n >= 0: lower case, no leading zeros.
HexStr(n) == IF n < 16 THEN <<HexDigits[n + 1]>>
             ELSE HexStr(n \div 16) \o <<HexDigits[(n % 16) + 1]>>

\* bytes.hex(): two lower-case hex digits per byte.
bytes_hex(b) ==
    [i \in 1..(2 * Len(b)) |->
        IF i % 2 = 1 THEN HexDigits[(b[(i + 1) \div 2] \div 16) + 1]
        ELSE HexDigits[(b[i \div 2] % 16) + 1]]

\* socket.inet_ntoa(b) raises OSError unless b holds exactly 4 bytes.
inet_ntoa_raises(b) == Len(b) # 4

\* socket.inet_ntoa(b): dotted-decimal text of a packed IPv4 address.
inet_ntoa(b) == DecStr(b[1]) \o <<".">> \o DecStr(b[2]) \o <<".">>
                \o DecStr(b[3]) \o <<".">> \o DecStr(b[4])

-----------------------------------------------------------------------------
(* socket.inet_ntop(AF_INET6, b): the C library's inet_ntop6. *)

\* the eight 16-bit words of the address, in network order
Words6(b) == [i \in 1..8 |-> 256 * b[2 * i - 1] + b[2 * i]]

\* length of the run of zero words starting at word i (0 if word i is not 0)
RECURSIVE ZeroRun(_, _)
ZeroRun(w, i) == IF i > 8 \/ w[i] # 0 THEN 0 ELSE 1 + ZeroRun(w, i + 1)

\* start of the first longest run of at least two zero words, 0 if none
BestBase(w) ==
    LET starts == {i \in 1..8 : ZeroRun(w, i) >= 2 /\ (i = 1 \/ w[i - 1] # 0)}
    IN  IF starts = {} THEN 0
        ELSE CHOOSE i \in starts :
                 \A j \in starts : \/ ZeroRun(w, i) > ZeroRun(w, j)
                                   \/ ZeroRun(w, i) = ZeroRun(w, j) /\ i <= j

RECURSIVE Ntop6From(_, _, _, _, _)
Ntop6From(b, w, base, len, i) ==
    IF i > 8 THEN <<>>
    ELSE IF base # 0 /\ i >= base /\ i < base + len
    THEN (IF i = base THEN <<":">> ELSE <<>>) \o Ntop6From(b, w, base, len, i + 1)
    ELSE (IF i # 1 THEN <<":">> ELSE <<>>)
         \o (IF i = 7 /\ base = 1 /\ (len = 6 \/ (len = 5 /\ w[6] = 65535))
             THEN inet_ntoa(SubSeq(b, 13, 16))
             ELSE HexStr(w[i]) \o Ntop6From(b, w, base, len, i + 1))

inet_ntop6(b) ==
    LET w == Words6(b)
        base == BestBase(w)
        len == IF base = 0 THEN 0 ELSE ZeroRun(w, base)
    IN  Ntop6From(b, w, base, len, 1)
        \o (IF base # 0 /\ base + len = 9 THEN <<":">> ELSE <<>>)

-----------------------------------------------------------------------------
(* parse_sockaddr(data, family) *)

\* HeuristicPort with big-endian as the default byte order
HeuristicPort_BigEndianDefault(data) ==
    LET port_be == unpack_BE16(Slice(data, 6, 8))
        port_le == unpack_LE16(Slice(data, 6, 8))
    IN  IF port_be = 80 THEN port_be
        ELSE IF port_le = 80 THEN port_le
        ELSE port_be

\* the port chosen on the family == 0 branch
HeuristicPort(data) ==
    LET port_be == unpack_BE16(Slice(data, 6, 8))
        port_le == unpack_LE16(Slice(data, 6, 8))
    IN  IF port_be = 80 THEN port_be
        ELSE IF port_le = 80 THEN port_le
        ELSE port_le

\* ParseFamilyZero without the all-zero address check
ParseFamilyZero_KeepZero(data) ==
    [family |-> "AF_INET",
     address |-> inet_ntoa(Slice(data, 8, 12)),
     port |-> HeuristicPort(data)]

\* the family == 0 branch once inet_ntoa has succeeded
ParseFamilyZero(data) ==
    LET port == HeuristicPort(data)
        addr_str == inet_ntoa(Slice(data, 8, 12))
    IN  IF addr_str = <<"0", ".", "0", ".", "0", ".", "0">>
        THEN [family |-> "AF_INET", address |-> NoneStr, port |-> port]
        ELSE [family |-> "AF_INET", address |-> addr_str, port |-> port]

\* the IPv4 sockaddr_in branch
ParseInet(data) ==
    IF Len(data) < 8 THEN None
    ELSE [family |-> "AF_INET",
          address |-> inet_ntoa(Slice(data, 4, 8)),
          port |-> unpack_LE16(Slice(data, 2, 4))]

\* the IPv6 sockaddr_in6 branch
ParseInet6(data) ==
    IF Len(data) < 24 THEN None
    ELSE LET result == [family |-> "AF_INET6",
                        address |-> inet_ntop6(Slice(data, 8, 24)),
                        port |-> unpack_LE16(Slice(data, 2, 4)),
                        flowinfo |-> unpack_LE32(Slice(data, 4, 8))]
         IN  IF Len(data) >= 28
             THEN [family |-> result.family, address |-> result.address,
                   port |-> result.port, flowinfo |-> result.flowinfo,
                   scope_id |-> unpack_LE32(Slice(data, 24, 28))]
             ELSE result

parse_sockaddr(data, family) ==
    IF family = 0 /\ Len(data) >= 8 /\ ~inet_ntoa_raises(Slice(data, 8, 12))
    THEN ParseFamilyZero(data)
    ELSE IF family = AF_INET THEN ParseInet(data)
    ELSE IF family = AF_INET6 \/ family = AF_INET6_LOCAL THEN ParseInet6(data)
    ELSE None

-----------------------------------------------------------------------------
(* base64.b64encode(b).decode('ascii') *)

B64Alphabet ==
    <<"A", "B", "C", "D", "E", "F", "G", "H", "I", "J", "K", "L", "M",
      "N", "O", "P", "Q", "R", "S", "T", "U", "V", "W", "X", "Y", "Z",
      "a", "b", "c", "d", "e", "f", "g", "h", "i", "j", "k", "l", "m",
      "n", "o", "p", "q", "r", "s", "t", "u", "v", "w", "x", "y", "z",
      "0", "1", "2", "3", "4", "5", "6", "7", "8", "9", "+", "/">>

\* every 3 input bytes give 4 characters of 6 bits each; a last group of 1
\* or 2 bytes is zero-filled and its unused characters are "="
b64encode(b) ==
    LET n == Len(b)
        byte(k) == IF k <= n THEN b[k] ELSE 0
    IN  [i \in 1..(4 * ((n + 2) \div 3)) |->
            LET g == 3 * ((i - 1) \div 4)
                j == (i - 1) % 4
            IN  IF j = 0 THEN B64Alphabet[(byte(g + 1) \div 4) + 1]
                ELSE IF j = 1
                THEN B64Alphabet[(byte(g + 1) % 4) * 16 + (byte(g + 2) \div 16) + 1]
                ELSE IF j = 2
                THEN (IF g + 2 > n THEN "="
                      ELSE B64Alphabet[(byte(g + 2) % 16) * 4
                                       + (byte(g + 3) \div 64) + 1])
                ELSE (IF g + 3 > n THEN "="
                      ELSE B64Alphabet[(byte(g + 3) % 64) + 1])]

-----------------------------------------------------------------------------
(* bytes.decode('utf-8', errors='ignore'): the text is the sequence of the *)
(* decoded code points; an invalid or cut-short sequence is dropped.       *)

IsContinuation(c) == c >= 128 /\ c <= 191

\* is c2 an acceptable second byte after the lead byte c
ValidSecond(c, c2) ==
    /\ IsContinuation(c2)
    /\ ~(c = 224 /\ c2 < 160)
    /\ ~(c = 237 /\ c2 >= 160)
    /\ ~(c = 240 /\ c2 < 144)
    /\ ~(c = 244 /\ c2 >= 144)

RECURSIVE utf8_decode_ignore(_, _)
utf8_decode_ignore(b, i) ==
    IF i > Len(b) THEN <<>>
    ELSE LET c == b[i]
             avail == Len(b) - i + 1
         IN  IF c < 128 THEN <<c>> \o utf8_decode_ignore(b, i + 1)
             ELSE IF c < 194 \/ c >= 245 THEN utf8_decode_ignore(b, i + 1)
             ELSE IF avail < 2 THEN <<>>
             ELSE IF ~ValidSecond(c, b[i + 1]) THEN utf8_decode_ignore(b, i + 1)
             ELSE IF c < 224
             THEN <<(c % 32) * 64 + (b[i + 1] % 64)>>
                  \o utf8_decode_ignore(b, i + 2)
             ELSE IF avail < 3 THEN <<>>
             ELSE IF ~IsContinuation(b[i + 2]) THEN utf8_decode_ignore(b, i + 2)
             ELSE IF c < 240
             THEN <<(c % 16) * 4096 + (b[i + 1] % 64) * 64 + (b[i + 2] % 64)>>
                  \o utf8_decode_ignore(b, i + 3)
             ELSE IF avail < 4 THEN <<>>
             ELSE IF ~IsContinuation(b[i + 3]) THEN utf8_decode_ignore(b, i + 3)
             ELSE <<(c % 8) * 262144 + (b[i + 1] % 64) * 4096
                    + (b[i + 2] % 64) * 64 + (b[i + 3] % 64)>>
                  \o utf8_decode_ignore(b, i + 4)

\* with errors='ignore' the decode of a bytes object does not raise
utf8_decode_raises(b) == FALSE

-----------------------------------------------------------------------------
(* convert_binary_file: the record decoder. *)

HexLimit == 100

TruncationMarker == <<".", ".", ".">>

\* TruncatedHex with the limit test off by one
TruncatedHex_Strict(resp_size, resp_data) ==
    IF resp_size < HexLimit THEN bytes_hex(resp_data)
    ELSE bytes_hex(Slice(resp_data, 0, HexLimit)) \o TruncationMarker

\* resp_data.hex() if resp_size <= 100 else resp_data[:100].hex() + "..."
TruncatedHex(resp_size, resp_data) ==
    IF resp_size <= HexLimit THEN bytes_hex(resp_data)
    ELSE bytes_hex(Slice(resp_data, 0, HexLimit)) \o TruncationMarker

\* DecodeSockaddr taking the sockaddr structure from offset 0 of the payload
DecodeSockaddr_FamilyAtZero(resp_data) ==
    LET family == unpack_LE16(Slice(resp_data, 0, 2))
        sockaddr_data == parse_sockaddr(resp_data, family)
    IN  IF sockaddr_data # None THEN sockaddr_data
        ELSE [raw_base64 |-> b64encode(resp_data),
              raw_hex |-> bytes_hex(resp_data)]

\* the branch for RESP_DSTADDR, RESP_SOCKNAME, RESP_PEERNAME
DecodeSockaddr(resp_data) ==
    LET family == unpack_LE16(Slice(resp_data, 4, 6))
        sockaddr_data == parse_sockaddr(SliceFrom(resp_data, 4), family)
    IN  IF sockaddr_data # None THEN sockaddr_data
        ELSE [raw_base64 |-> b64encode(resp_data),
              raw_hex |-> bytes_hex(resp_data)]

\* the branch for RESP_PACKET
DecodePacket(resp_size, resp_data) ==
    [size |-> resp_size,
     base64 |-> b64encode(resp_data),
     hex |-> TruncatedHex(resp_size, resp_data)]

\* the final else branch, also the except branch of RESP_DATA
DecodeGeneric(resp_size, resp_data) ==
    [base64 |-> b64encode(resp_data),
     hex |-> TruncatedHex(resp_size, resp_data),
     size |-> resp_size]

\* the branch for RESP_DATA
DecodeData(resp_size, resp_data) ==
    IF utf8_decode_raises(resp_data) THEN DecodeGeneric(resp_size, resp_data)
    ELSE [text |-> utf8_decode_ignore(resp_data, 1),
          size |-> resp_size,
          base64 |-> b64encode(resp_data)]

\* does the type take the sockaddr branch
IsSockaddrRecord(resp_type, resp_size) ==
    /\ resp_type \in {RESP_DSTADDR, RESP_SOCKNAME, RESP_PEERNAME}
    /\ resp_size >= 6

\* the if/elif chain that fills response["data"]
DecodeData_(resp_type, resp_size, resp_data) ==
    IF IsSockaddrRecord(resp_type, resp_size) THEN DecodeSockaddr(resp_data)
    ELSE IF resp_type = RESP_PACKET THEN DecodePacket(resp_size, resp_data)
    ELSE IF resp_type = RESP_DATA THEN DecodeData(resp_size, resp_data)
    ELSE IF resp_type = RESP_TIMEOUT THEN [timeout |-> TRUE]
    ELSE IF resp_type = RESP_READ_ERROR THEN [error |-> TRUE]
    ELSE DecodeGeneric(resp_size, resp_data)

\* the decode of one record raises when struct.unpack gets a short buffer
DecodeRaises(resp_type, resp_size, resp_data) ==
    /\ IsSockaddrRecord(resp_type, resp_size)
    /\ unpack_raises(Slice(resp_data, 4, 6), 2)

\* DecodeRecord with the two header fields exchanged
DecodeRecord_SwappedHeader(resp_type, resp_size, resp_data) ==
    [type |-> resp_size, size |-> resp_type,
     data |-> DecodeData_(resp_type, resp_size, resp_data)]

\* the response dict appended for one record
DecodeRecord(resp_type, resp_size, resp_data) ==
    [type |-> resp_type, size |-> resp_size,
     data |-> DecodeData_(resp_type, resp_size, resp_data)]

\* f.read(n) with the file position at pos
Read(f, pos, n) == SubSeq(f, pos + 1, Min(pos + n, Len(f)))

RECURSIVE ReadLoop_EmitPartial(_, _, _)
\* ReadLoop that emits the half-read record when the payload is cut short
ReadLoop_EmitPartial(f, pos, acc) ==
    LET type_data == Read(f, pos, 4)
        size_data == Read(f, pos + 4, 4)
        resp_type == unpack_LE32(type_data)
        resp_size == unpack_LE32(size_data)
        resp_data == IF resp_size > 0 THEN Read(f, pos + 8, resp_size) ELSE <<>>
        stop == [raised |-> FALSE, responses |-> acc]
    IN  IF Len(type_data) < 4 THEN stop
        ELSE IF Len(size_data) < 4 THEN stop
        ELSE IF resp_size > 0 /\ Len(resp_data) < resp_size
        THEN [raised |-> FALSE,
              responses |-> Append(acc, [type |-> resp_type, size |-> resp_size,
                                         data |-> DecodeGeneric(resp_size, resp_data)])]
        ELSE IF DecodeRaises(resp_type, resp_size, resp_data)
        THEN [raised |-> TRUE, responses |-> acc]
        ELSE ReadLoop_EmitPartial(f, pos + 8 + Len(resp_data),
                 Append(acc, DecodeRecord(resp_type, resp_size, resp_data)))

RECURSIVE ReadLoop(_, _, _)
\* the while True loop: the responses list when the loop ends, and whether
\* an exception left the loop
ReadLoop(f, pos, acc) ==
    LET type_data == Read(f, pos, 4)
        size_data == Read(f, pos + 4, 4)
        resp_type == unpack_LE32(type_data)
        resp_size == unpack_LE32(size_data)
        resp_data == IF resp_size > 0 THEN Read(f, pos + 8, resp_size) ELSE <<>>
        stop == [raised |-> FALSE, responses |-> acc]
    IN  IF Len(type_data) < 4 THEN stop
        ELSE IF Len(size_data) < 4 THEN stop
        ELSE IF resp_size > 0 /\ Len(resp_data) < resp_size THEN stop
        ELSE IF DecodeRaises(resp_type, resp_size, resp_data)
        THEN [raised |-> TRUE, responses |-> acc]
        ELSE ReadLoop(f, pos + 8 + Len(resp_data),
                      Append(acc, DecodeRecord(resp_type, resp_size, resp_data)))

InputName == "capture.net"

\* json_data
JsonData(resps) ==
    [version |-> "1.0", source |-> "converted from binary",
     original_file |-> InputName, responses |-> resps]

-----------------------------------------------------------------------------
(* Specification SpecSockaddr: parse_sockaddr applied to sample spans. *)

PortBytes == {0, 1, 80}

AddrBytes == {0, 93}

FamilyHints == {0, 2, 5, AF_INET6, AF_INET6_LOCAL}

\* a 28-byte buffer: the port candidate at offset 6, an address at offset 8
SampleBuffer(p1, p2, a1, a2, a3, a4) ==
    [i \in 1..(MaxSpanLen + 4) |->
        IF i = 7 THEN p1 ELSE IF i = 8 THEN p2
        ELSE IF i = 9 THEN a1 ELSE IF i = 10 THEN a2
        ELSE IF i = 11 THEN a3 ELSE IF i = 12 THEN a4
        ELSE IF i <= 4 THEN i - 1
        ELSE IF i % 4 = 0 THEN 0 ELSE (i * 37) % 256]

SampleSpans ==
    {SubSeq(SampleBuffer(p1, p2, a1, a2, a3, a4), 1, n) :
        p1 \in PortBytes, p2 \in PortBytes,
        a1 \in AddrBytes, a2 \in AddrBytes, a3 \in AddrBytes, a4 \in AddrBytes,
        n \in 0..MaxSpanLen}

convIdle ==
    /\ written = <<>> /\ nrec = 0 /\ file = <<>>
    /\ document = None /\ raised = FALSE /\ cv_pc = "idle"

valIdle ==
    /\ v_line = <<>> /\ v_result = None /\ v_pc = "idle"

mainIdle ==
    /\ argc = 0 /\ input_exists = FALSE /\ in_files = <<>>
    /\ out_tree = <<>> /\ out_tree0 = <<>> /\ net_files = <<>> /\ next_file = 0
    /\ attempted = {} /\ log = <<>> /\ exit_status = -1 /\ m_pc = "idle"

sockIdle ==
    /\ sa_data = <<>> /\ sa_family = 0 /\ sa_result = None /\ sa_pc = "idle"

InitSockaddr ==
    /\ sa_data \in SampleSpans
    /\ sa_family \in FamilyHints
    /\ sa_result = None
    /\ sa_pc = "call"
    /\ convIdle
    /\ mainIdle
    /\ valIdle

CallParseSockaddr ==
    /\ sa_pc = "call"
    /\ sa_result' = parse_sockaddr(sa_data, sa_family)
    /\ sa_pc' = "returned"
    /\ UNCHANGED <<sa_data, sa_family, convVars, mainVars, valVars>>

NextSockaddr == CallParseSockaddr

SpecSockaddr == InitSockaddr /\ [][NextSockaddr]_vars

-----------------------------------------------------------------------------
(* Properties of parse_sockaddr, checked under SpecSockaddr. *)

\* the port the family-0 heuristic is documented to choose from the two
\* bytes at offset 6
ExpectedPort(data) ==
    IF 256 * data[7] + data[8] = 80 THEN 80 ELSE data[7] + 256 * data[8]

\* C9 as stated: for every span of length >= 8 and family hint 0,
\* parse_sockaddr returns a decoded value (not None) whose port is 80 when
\* the big-endian reading of the bytes at offset 6 is 80 and their
\* little-endian reading otherwise.
C9_AnySpanOfEightDecodes ==
    (sa_pc = "returned" /\ sa_family = 0 /\ Len(sa_data) >= 8)
        => /\ sa_result # None
           /\ sa_result.port = ExpectedPort(sa_data)

\* C9 amended: with family hint 0, a span of length >= 12 decodes to a value
\* whose port is 80 when the big-endian reading of the bytes at offset 6 is
\* 80 and their little-endian reading otherwise; a span of length 8..11 has
\* no complete address field and parse_sockaddr returns None for it.
C9_HeuristicPort ==
    (sa_pc = "returned" /\ sa_family = 0 /\ Len(sa_data) >= 8)
        => IF Len(sa_data) >= 12
           THEN /\ sa_result # None
                /\ sa_result.port = ExpectedPort(sa_data)
           ELSE sa_result = None

\* C9 witness: family hint 0, a 12-byte span whose port bytes read 80 only
\* in big-endian order, decoded with port 80.
C9_Witness ==
    /\ sa_pc = "returned" /\ sa_family = 0 /\ Len(sa_data) = 12
    /\ sa_data[7] = 0 /\ sa_data[8] = 80
    /\ sa_result # None
    /\ sa_result.port = 80

\* C10: with family hint 0 and a 4-byte address field at offset 8, the
\* address is null exactly when the 4 bytes are all zero, otherwise it is
\* their dotted-decimal text, and the text 0.0.0.0 is never returned.
C10_ZeroAddressIsNull ==
    (sa_pc = "returned" /\ sa_family = 0 /\ Len(sa_data) >= 12)
        => LET allZero == \A i \in 9..12 : sa_data[i] = 0
           IN  /\ sa_result # None
               /\ allZero <=> (sa_result.address = NoneStr)
               /\ ~allZero => sa_result.address = inet_ntoa(SubSeq(sa_data, 9, 12))
               /\ sa_result.address # <<"0", ".", "0", ".", "0", ".", "0">>

\* C10 witness: an all-zero address field decoded as a null address.
C10_Witness ==
    /\ sa_pc = "returned" /\ sa_family = 0 /\ Len(sa_data) >= 12
    /\ \A i \in 9..12 : sa_data[i] = 0
    /\ sa_result # None
    /\ sa_result.address = NoneStr

-----------------------------------------------------------------------------
(* Specification SpecConvert: a capture file is written record by record,  *)
(* possibly cut short, and then converted by convert_binary_file.          *)

\* struct.pack('<I', n)
pack_LE32(n) == <<n % 256, (n \div 256) % 256, (n \div 65536) % 256, n \div 16777216>>

\* one record on the wire: type, size, payload
WireRecord(resp_type, payload) ==
    pack_LE32(resp_type) \o pack_LE32(Len(payload)) \o payload

Ramp(n) == [i \in 1..n |-> (i * 37 + 5) % 256]

AddrPrefix == <<16, 0, 0, 0>>

Inet4Bytes == <<2, 0, 80, 0, 93, 184, 216, 34>>

Inet6Body == <<80, 0, 1, 0, 0, 0, 32, 1, 13, 184, 0, 0, 0, 0, 0, 0, 0, 0, 0, 0, 0, 1>>

AddrPayloads ==
    { <<>>,
      <<16, 0, 0, 0, 2>>,
      Inet4Bytes,
      AddrPrefix \o SubSeq(Inet4Bytes, 1, 7),
      AddrPrefix \o Inet4Bytes,
      AddrPrefix \o <<0, 0, 0, 0, 0, 0, 0, 80, 93, 184, 216, 34>>,
      AddrPrefix \o <<0, 0, 0, 0, 0, 0, 0, 80, 93>>,
      AddrPrefix \o <<0, 0, 0, 0, 0, 0, 57, 48, 0, 0, 0, 0>>,
      AddrPrefix \o <<10, 0>> \o Inet6Body,
      AddrPrefix \o <<28, 0>> \o Inet6Body \o <<3, 0, 0, 0>>,
      AddrPrefix \o <<5, 0, 1, 2, 3, 4, 5, 6>> }

PacketSizes == {0, 1, 2, 3, HexLimit - 1, HexLimit, HexLimit + 1, MaxPacketLen}

DataPayloads ==
    { <<104, 105>>, <<255, 104, 195>>, <<195, 169, 226, 130, 172>>,
      <<224, 128, 65, 240, 159, 152, 128>> }

SampleRecords ==
    {<<RESP_PEERNAME, p>> : p \in AddrPayloads}
    \cup {<<t, p>> : t \in {RESP_SOCKNAME, RESP_DSTADDR},
                     p \in {<<>>, <<16, 0, 0, 0, 2>>, AddrPrefix \o Inet4Bytes}}
    \cup {<<RESP_PACKET, Ramp(n)>> : n \in PacketSizes}
    \cup {<<RESP_DATA, p>> : p \in DataPayloads}
    \cup {<<RESP_TIMEOUT, p>> : p \in {<<>>, <<7>>}}
    \cup {<<t, p>> : t \in {5, 12}, p \in {<<>>, <<1, 2>>}}

\* records written after the first one
FollowRecords ==
    { <<RESP_TIMEOUT, <<>>>>, <<RESP_PACKET, Ramp(3)>>,
      <<RESP_PEERNAME, AddrPrefix \o Inet4Bytes>> }

InitConvert ==
    /\ written = <<>> /\ nrec = 0 /\ file = <<>>
    /\ document = None /\ raised = FALSE /\ cv_pc = "writing"
    /\ sockIdle
    /\ mainIdle
    /\ valIdle

\* the test harness appends one record to the capture file
WriteRecord(r) ==
    /\ cv_pc = "writing"
    /\ nrec < MaxRecords
    /\ written' = written \o WireRecord(r[1], r[2])
    /\ file' = written'
    /\ nrec' = nrec + 1
    /\ UNCHANGED <<document, raised, cv_pc, sockVars, mainVars, valVars>>

\* the harness is killed mid-write: only the first k bytes reach the file
Truncate(k) ==
    /\ cv_pc = "writing"
    /\ k < Len(written)
    /\ file' = Slice(written, 0, k)
    /\ cv_pc' = "truncated"
    /\ UNCHANGED <<written, nrec, document, raised, sockVars, mainVars, valVars>>

\* convert_binary_file(input_path, output_path)
ConvertBinaryFile ==
    /\ cv_pc \in {"writing", "truncated"}
    /\ LET r == ReadLoop(file, 0, <<>>)
       IN  /\ raised' = r.raised
           /\ document' = IF r.raised THEN None ELSE JsonData(r.responses)
    /\ cv_pc' = "done"
    /\ UNCHANGED <<written, nrec, file, sockVars, mainVars, valVars>>

NextConvert ==
    \/ \E r \in (IF nrec = 0 THEN SampleRecords ELSE FollowRecords) : WriteRecord(r)
    \/ \E k \in 0..Len(written) : Truncate(k)
    \/ ConvertBinaryFile

SpecConvert == InitConvert /\ [][NextConvert]_vars

-----------------------------------------------------------------------------
(* Properties of convert_binary_file, checked under SpecConvert. *)

IsPrefix(a, b) == Len(a) <= Len(b) /\ \A i \in 1..Len(a) : a[i] = b[i]

\* little-endian 32-bit field at byte offset pos of f
FieldAt(f, pos) ==
    f[pos + 1] + 256 * f[pos + 2] + 65536 * f[pos + 3] + 16777216 * f[pos + 4]

RECURSIVE CompleteRecords(_, _)
\* byte offsets of the complete records of stream f from offset pos on: a
\* record is complete when its 8 header bytes and all the payload bytes its
\* size field announces are present
CompleteRecords(f, pos) ==
    IF pos + 8 <= Len(f) /\ pos + 8 + FieldAt(f, pos + 4) <= Len(f)
    THEN <<pos>> \o CompleteRecords(f, pos + 8 + FieldAt(f, pos + 4))
    ELSE <<>>

\* payload bytes of the complete record at offset pos
PayloadAt(f, pos) == SubSeq(f, pos + 9, pos + 8 + FieldAt(f, pos + 4))

\* value of a base64 character
B64Value(c) == IF c = "=" THEN 0 ELSE (CHOOSE k \in 1..64 : B64Alphabet[k] = c) - 1

\* the bytes a padded base64 text stands for
B64Decode(t) ==
    LET pad == Cardinality({i \in 1..Len(t) : t[i] = "="})
        n == 3 * (Len(t) \div 4) - pad
    IN  [k \in 1..n |->
            LET g == 4 * ((k - 1) \div 3)
                j == (k - 1) % 3
                v(m) == B64Value(t[g + m])
            IN  IF j = 0 THEN v(1) * 4 + (v(2) \div 16)
                ELSE IF j = 1 THEN (v(2) % 16) * 16 + (v(3) \div 4)
                ELSE (v(3) % 4) * 64 + v(4)]

\* C1: converting the stream cut to k bytes does not raise, and its records
\* are a prefix of the records of the stream cut to any k' with
\* k <= k' <= length; a half-read record is not emitted.
C1_TruncationPrefix ==
    cv_pc = "done"
        => /\ ~raised
           /\ \A k2 \in Len(file)..Len(written) :
                  LET longer == ReadLoop(Slice(written, 0, k2), 0, <<>>)
                  IN  /\ ~longer.raised
                      /\ IsPrefix(document.responses, longer.responses)
           /\ Len(document.responses) = Len(CompleteRecords(file, 0))

\* C1 witness: a two-record stream cut inside its second record, converted
\* to the single complete record.
C1_Witness ==
    /\ cv_pc = "done" /\ nrec = 2
    /\ Len(file) < Len(written)
    /\ Len(file) > 8 + FieldAt(written, 4) + 8
    /\ ~raised
    /\ Len(document.responses) = 1

\* the input of C2: a peer-name record with the 8-byte payload
\* 02 00 50 00 5d b8 d8 22, then a timeout record with no payload
C2_Input == WireRecord(4, <<2, 0, 80, 0, 93, 184, 216, 34>>) \o WireRecord(9, <<>>)

\* C2 as stated: the document of that input has two responses, the first
\* decoded as AF_INET, 93.184.216.34, port 80, the second {timeout: true}.
C2_DecodesInetPeer ==
    (cv_pc = "done" /\ file = C2_Input)
        => /\ document # None
           /\ Len(document.responses) = 2
           /\ document.responses[1].data =
                  [family |-> "AF_INET",
                   address |-> <<"9", "3", ".", "1", "8", "4", ".",
                                 "2", "1", "6", ".", "3", "4">>,
                   port |-> 80]
           /\ document.responses[2].data = [timeout |-> TRUE]

\* C2 amended: the document of that input has two responses; the family tag
\* is read at payload offset 4 (bytes 5d b8), which names no known family,
\* so the first response carries the raw fallback raw_base64 "AgBQAF242CI="
\* and raw_hex "020050005db8d822"; the second is {timeout: true}.
C2_RawFallbackPeer ==
    (cv_pc = "done" /\ file = C2_Input)
        => /\ document # None
           /\ Len(document.responses) = 2
           /\ document.responses[1].data =
                  [raw_base64 |-> <<"A", "g", "B", "Q", "A", "F", "2", "4",
                                    "2", "C", "I", "=">>,
                   raw_hex |-> <<"0", "2", "0", "0", "5", "0", "0", "0",
                                 "5", "d", "b", "8", "d", "8", "2", "2">>]
           /\ document.responses[2].data = [timeout |-> TRUE]

\* C2 witness: the two-record input has been converted.
C2_Witness ==
    /\ cv_pc = "done" /\ file = C2_Input
    /\ document # None
    /\ Len(document.responses) = 2

IsSockAddr(data) == "family" \in DOMAIN data

IsRawFallback(data) ==
    \/ DOMAIN data = {"raw_base64", "raw_hex"}
    \/ DOMAIN data = {"base64", "hex", "size"}

\* C5: every complete record of an address-class type (2, 3, 4), whatever
\* its payload size, has data that is a decoded SockAddr or a raw fallback
\* with base64 and hex, never the {error: true} marker.
C5_AddressClassFirst ==
    (cv_pc = "done" /\ document # None)
        => \A i \in 1..Len(document.responses) :
               document.responses[i].type \in {2, 3, 4}
                   => \/ IsSockAddr(document.responses[i].data)
                      \/ IsRawFallback(document.responses[i].data)

\* C6: responses holds one entry per complete record of the stream, in
\* stream order, with the record's little-endian type and size and a data
\* field.
C6_OneEntryPerRecord ==
    cv_pc = "done"
        => LET offs == CompleteRecords(file, 0)
           IN  /\ document # None
               /\ Len(document.responses) = Len(offs)
               /\ \A i \in 1..Len(offs) :
                      /\ document.responses[i].type = FieldAt(file, offs[i])
                      /\ document.responses[i].size = FieldAt(file, offs[i] + 4)
                      /\ "data" \in DOMAIN document.responses[i]

\* C6 witness: two complete records of different types and sizes converted
\* in order.
C6_Witness ==
    /\ cv_pc = "done" /\ document # None
    /\ Len(document.responses) = 2
    /\ document.responses[1].type # document.responses[2].type
    /\ document.responses[1].size > document.responses[2].size
    /\ document.responses[1].type # document.responses[1].size

\* C7: for a packet record, base64 encodes the whole payload; hex is the hex
\* of the whole payload when size <= 100 and the 200 hex characters of the
\* first 100 bytes followed by "..." when size > 100.
C7_PacketHexAndBase64 ==
    (cv_pc = "done" /\ document # None)
        => LET offs == CompleteRecords(file, 0)
           IN  \A i \in 1..Len(document.responses) :
                   document.responses[i].type = 1
                       => LET payload == PayloadAt(file, offs[i])
                              size == Len(payload)
                              data == document.responses[i].data
                              shown == IF size <= 100 THEN size ELSE 100
                          IN  /\ B64Decode(data.base64) = payload
                              /\ Len(data.hex) = IF size <= 100 THEN 2 * size ELSE 203
                              /\ \A j \in 1..shown :
                                     /\ data.hex[2 * j - 1] = HexDigits[(payload[j] \div 16) + 1]
                                     /\ data.hex[2 * j] = HexDigits[(payload[j] % 16) + 1]
                              /\ size > 100 => SubSeq(data.hex, 201, 203) = <<".", ".", ".">>

\* C7 witness: packet records of 100 and of more than 100 bytes cannot share
\* a state, so the witness is the long one: hex cut to 200 characters plus
\* the marker, base64 of full length.
C7_Witness ==
    /\ cv_pc = "done" /\ document # None
    /\ Len(document.responses) >= 1
    /\ document.responses[1].type = 1
    /\ document.responses[1].size > 100
    /\ Len(document.responses[1].data.hex) = 203
    /\ Len(document.responses[1].data.base64) = 4 * ((document.responses[1].size + 2) \div 3)

-----------------------------------------------------------------------------
(* Specification SpecMain: one run of main() over an input tree and an     *)
(* output tree.  Input file i lies in the input root when i is odd and in  *)
(* the subdirectory "sub" when i is even.  An output path is the output    *)
(* root <<"dir", 0>>, its subdirectory <<"dir", 1>> or the JSON path       *)
(* <<"json", i>> of input file i; each is "absent", a "dir" or a "file".   *)

FileIds == 1..MaxFiles

OutRoot == <<"dir", 0>>

OutSub == <<"dir", 1>>

OutPaths == {OutRoot, OutSub} \cup {<<"json", i>> : i \in FileIds}

\* json_file.parent for input file i
ParentOf(i) == IF i % 2 = 0 THEN OutSub ELSE OutRoot

\* the output trees a run can start from: entries exist only inside
\* directories, and only the first JSON path may already be taken
InitialTrees ==
    {t \in [OutPaths -> {"absent", "dir", "file"}] :
        /\ t[OutRoot] # "dir" => t[OutSub] = "absent"
        /\ \A i \in FileIds :
               /\ t[ParentOf(i)] # "dir" => t[<<"json", i>>] = "absent"
               /\ i > 1 => t[<<"json", i>>] = "absent"}

\* Path.mkdir(parents=True, exist_ok=True) raises when the path exists and
\* is not a directory
MkdirRaises(tree, path) == tree[path] = "file"

\* Path.mkdir(parents=True, exist_ok=True) when it does not raise
Mkdir(tree, path) == [tree EXCEPT ![path] = "dir"]

\* convert_binary_file raises when the input cannot be opened for reading or
\* the output path cannot be opened for writing
ConvertRaises(tree, i) ==
    \/ in_files[i] = "unreadable"
    \/ tree[<<"json", i>>] = "dir"

\* all orders in which rglob can yield the files of set S
Orders(S) ==
    {q \in [1..Cardinality(S) -> S] : \A a, b \in DOMAIN q : a # b => q[a] # q[b]}

InitMain ==
    /\ argc \in {2, 3}
    /\ input_exists \in BOOLEAN
    /\ \E S \in SUBSET FileIds :
           /\ ~input_exists => S = {}
           /\ in_files \in [S -> {"ok", "unreadable"}]
    /\ out_tree \in InitialTrees
    /\ out_tree0 = out_tree
    /\ net_files = <<>> /\ next_file = 0
    /\ attempted = {} /\ log = <<>> /\ exit_status = -1 /\ m_pc = "start"
    /\ sockIdle
    /\ convIdle
    /\ valIdle

\* main() up to the for loop: argument check, input_dir.exists(),
\* output_dir.mkdir, rglob, the empty check
MainStart ==
    /\ m_pc = "start"
    /\ IF argc # 3
       THEN /\ log' = Append(log, [msg |-> "usage"])
            /\ exit_status' = 1 /\ m_pc' = "exit"
            /\ UNCHANGED <<out_tree, net_files, next_file>>
       ELSE IF ~input_exists
       THEN /\ log' = Append(log, [msg |-> "input directory does not exist"])
            /\ exit_status' = 1 /\ m_pc' = "exit"
            /\ UNCHANGED <<out_tree, net_files, next_file>>
       ELSE IF MkdirRaises(out_tree, OutRoot)
       THEN /\ log' = Append(log, [msg |-> "traceback"])
            /\ exit_status' = 1 /\ m_pc' = "exit"
            /\ UNCHANGED <<out_tree, net_files, next_file>>
       ELSE /\ out_tree' = Mkdir(out_tree, OutRoot)
            /\ IF DOMAIN in_files = {}
               THEN /\ log' = Append(log, [msg |-> "no .net files found"])
                    /\ exit_status' = 1 /\ m_pc' = "exit"
                    /\ UNCHANGED <<net_files, next_file>>
               ELSE /\ net_files' \in Orders(DOMAIN in_files)
                    /\ next_file' = 1
                    /\ log' = Append(log, [msg |-> "found", count |-> Cardinality(DOMAIN in_files)])
                    /\ m_pc' = "loop"
                    /\ UNCHANGED exit_status
    /\ UNCHANGED <<argc, input_exists, in_files, out_tree0, attempted,
                   sockVars, convVars, valVars>>

\* one iteration of the for loop: json_file.parent.mkdir outside the try,
\* convert_binary_file inside it
ProcessFile ==
    /\ m_pc = "loop"
    /\ next_file <= Len(net_files)
    /\ LET i == net_files[next_file]
       IN  /\ attempted' = attempted \cup {i}
           /\ IF MkdirRaises(out_tree, ParentOf(i))
              THEN /\ log' = Append(log, [msg |-> "traceback"])
                   /\ exit_status' = 1 /\ m_pc' = "exit"
                   /\ UNCHANGED <<out_tree, next_file>>
              ELSE LET made == Mkdir(out_tree, ParentOf(i))
                   IN  /\ IF ConvertRaises(made, i)
                          THEN /\ log' = Append(log, [msg |-> "error converting", path |-> i])
                               /\ out_tree' = made
                          ELSE /\ log' = Append(log, [msg |-> "converted", path |-> i])
                               /\ out_tree' = [made EXCEPT ![<<"json", i>>] = "file"]
                       /\ next_file' = next_file + 1
                       /\ UNCHANGED <<exit_status, m_pc>>
    /\ UNCHANGED <<argc, input_exists, in_files, out_tree0, net_files,
                   sockVars, convVars, valVars>>

\* the for loop is exhausted and main() returns
MainReturn ==
    /\ m_pc = "loop"
    /\ next_file > Len(net_files)
    /\ exit_status' = 0
    /\ m_pc' = "exit"
    /\ UNCHANGED <<argc, input_exists, in_files, out_tree, out_tree0, net_files,
                   next_file, attempted, log, sockVars, convVars, valVars>>

NextMain == MainStart \/ ProcessFile \/ MainReturn

SpecMain == InitMain /\ [][NextMain]_vars

-----------------------------------------------------------------------------
(* Properties of main(), checked under SpecMain. *)

\* C3: when the input root exists and holds at least one .net file, main()
\* attempts every discovered file, a failure in a per-file step (creating
\* the file's output directory, opening, decoding, writing) is reported with
\* the file path and does not stop the later files, and the exit status is 0.
C3_EveryFileAttempted ==
    (m_pc = "exit" /\ argc = 3 /\ input_exists /\ DOMAIN in_files # {}
     /\ out_tree0[OutRoot] # "file")
        => /\ attempted = DOMAIN in_files
           /\ exit_status = 0
           /\ \A i \in DOMAIN in_files :
                  \E k \in 1..Len(log) :
                      /\ log[k].msg \in {"converted", "error converting"}
                      /\ log[k].path = i

\* C4: when the input root exists and holds no .net file, main() reports
\* that no files were found, ends with a non-zero status and leaves the
\* output tree as it was, the output path itself included.
C4_NoFilesNoOutput ==
    (m_pc = "exit" /\ argc = 3 /\ input_exists /\ DOMAIN in_files = {})
        => /\ exit_status # 0
           /\ \E k \in 1..Len(log) : log[k].msg = "no .net files found"
           /\ out_tree = out_tree0

-----------------------------------------------------------------------------
(* validate_json_results.py: the ipaddress text parsers. *)

DecimalDigits == {DecDigits[i] : i \in 1..10}

HexDigitChars == {HexDigits[i] : i \in 1..16} \cup {"A", "B", "C", "D", "E", "F"}

RECURSIVE Split(_, _)
\* str.split(sep) for a one-character separator
Split(str, sep) ==
    IF \A i \in 1..Len(str) : str[i] # sep THEN <<str>>
    ELSE LET k == CHOOSE i \in 1..Len(str) :
                      str[i] = sep /\ \A j \in 1..(i - 1) : str[j] # sep
         IN  <<SubSeq(str, 1, k - 1)>> \o Split(SubSeq(str, k + 1, Len(str)), sep)

RECURSIVE DecValue(_)
\* int(text) for a text of decimal digits
DecValue(t) ==
    IF t = <<>> THEN 0
    ELSE 10 * DecValue(SubSeq(t, 1, Len(t) - 1))
         + (CHOOSE d \in 0..9 : DecDigits[d + 1] = t[Len(t)])

\* IPv4Address._parse_octet accepts the octet
ValidOctet(o) ==
    /\ o # <<>>
    /\ \A i \in 1..Len(o) : o[i] \in DecimalDigits
    /\ Len(o) <= 3
    /\ ~(o # <<"0">> /\ o[1] = "0")
    /\ DecValue(o) <= 255

\* is_valid_ipv4(addr): ipaddress.IPv4Address(addr) does not raise
is_valid_ipv4(addr) ==
    /\ addr # <<>>
    /\ LET octets == Split(addr, ".")
       IN  /\ Len(octets) = 4
           /\ \A i \in 1..4 : ValidOctet(octets[i])

\* IPv6Address._parse_hextet accepts the group
ValidHextet(h) ==
    /\ h # <<>>
    /\ \A i \in 1..Len(h) : h[i] \in HexDigitChars
    /\ Len(h) <= 4

\* IPv6Address._ip_int_from_string accepts the text
ValidIPv6Body(ip_str) ==
    /\ ip_str # <<>>
    /\ LET parts0 == Split(ip_str, ":")
           last == parts0[Len(parts0)]
           hasV4 == \E i \in 1..Len(last) : last[i] = "."
           \* an IPv4 tail is replaced by the two groups it stands for
           parts == IF hasV4
                    THEN SubSeq(parts0, 1, Len(parts0) - 1) \o <<<<"0">>, <<"0">>>>
                    ELSE parts0
           n == Len(parts)
           skips == {i \in 2..(n - 1) : parts[i] = <<>>}
       IN  /\ Len(parts0) >= 3
           /\ hasV4 => is_valid_ipv4(last)
           /\ n <= 9
           /\ Cardinality(skips) <= 1
           /\ IF skips # {}
              THEN LET skip_index == (CHOOSE i \in skips : TRUE) - 1
                       hi0 == skip_index
                       lo0 == n - skip_index - 1
                       parts_hi == IF parts[1] = <<>> THEN hi0 - 1 ELSE hi0
                       parts_lo == IF parts[n] = <<>> THEN lo0 - 1 ELSE lo0
                   IN  /\ parts[1] = <<>> => parts_hi = 0
                       /\ parts[n] = <<>> => parts_lo = 0
                       /\ 8 - (parts_hi + parts_lo) >= 1
                       /\ \A i \in 1..parts_hi : ValidHextet(parts[i])
                       /\ \A i \in (n - parts_lo + 1)..n : ValidHextet(parts[i])
              ELSE /\ n = 8
                   /\ \A i \in 1..n : ValidHextet(parts[i])

\* is_valid_ipv6(addr): ipaddress.IPv6Address(addr) does not raise
is_valid_ipv6(addr) ==
    /\ \A i \in 1..Len(addr) : addr[i] # "/"
    /\ LET scoped == Split(addr, "%")
       IN  /\ Len(scoped) <= 2
           /\ Len(scoped) = 2 => scoped[2] # <<>>
           /\ ValidIPv6Body(scoped[1])

-----------------------------------------------------------------------------
(* validate_json_results.py: validate_address_family, validate_json_result.*)
(* A JSON value is <<"absent">> (key missing or null), <<"int", n>> or      *)
(* <<"str", text>>.                                                        *)

Absent == <<"absent">>

\* Python truth value of a str
Truthy(v) == v[1] = "str" /\ v[2] # <<>>

\* af == n
EqualsInt(v, n) == v[1] = "int" /\ v[2] = n

validate_address_family(af, dst_addr, src_addr) ==
    IF EqualsInt(af, 4)
    THEN (IF Truthy(dst_addr) /\ ~is_valid_ipv4(dst_addr[2])
          THEN <<"af=4 but dst_addr is not a valid IPv4 address">> ELSE <<>>)
         \o (IF Truthy(src_addr) /\ ~is_valid_ipv4(src_addr[2])
             THEN <<"af=4 but src_addr is not a valid IPv4 address">> ELSE <<>>)
    ELSE IF EqualsInt(af, 6)
    THEN (IF Truthy(dst_addr) /\ ~is_valid_ipv6(dst_addr[2])
          THEN <<"af=6 but dst_addr is not a valid IPv6 address">> ELSE <<>>)
         \o (IF Truthy(src_addr) /\ ~is_valid_ipv6(src_addr[2])
             THEN <<"af=6 but src_addr is not a valid IPv6 address">> ELSE <<>>)
    ELSE <<"Invalid address family">>

\* the errors one entry of result_list adds
ResultErrors(data, item) ==
    IF item # "dict" THEN <<"must be an object">>
    ELSE IF data.af # Absent /\ data.dst_addr # Absent /\ data.src_addr # Absent
    THEN validate_address_family(data.af, data.dst_addr, data.src_addr)
    ELSE (IF data.af = Absent THEN <<"missing 'af' field">> ELSE <<>>)
         \o (IF data.dst_addr = Absent THEN <<"missing 'dst_addr' field">> ELSE <<>>)
         \o (IF data.src_addr = Absent THEN <<"missing 'src_addr' field">> ELSE <<>>)

\* the warnings one entry of result_list adds
ResultWarnings(data, item) ==
    IF item # "dict" THEN <<>>
    ELSE (IF data.dst_addr = <<"str", <<>>>> THEN <<"dst_addr is empty">> ELSE <<>>)
         \o (IF data.src_addr = <<"str", <<>>>> THEN <<"src_addr is empty">> ELSE <<>>)

RECURSIVE CollectErrors(_, _)
\* the errors the for loop over result_list gathers
CollectErrors(data, result_list) ==
    IF result_list = <<>> THEN <<>>
    ELSE ResultErrors(data, Head(result_list))
         \o CollectErrors(data, Tail(result_list))

RECURSIVE CollectWarnings(_, _)
\* the warnings the for loop over result_list gathers
CollectWarnings(data, result_list) ==
    IF result_list = <<>> THEN <<>>
    ELSE ResultWarnings(data, Head(result_list))
         \o CollectWarnings(data, Tail(result_list))

\* validate_json_result(line); line.json is the value json.loads returns
validate_json_result(line) ==
    IF line.json.kind = "invalid"
    THEN [valid |-> FALSE, errors |-> <<"Invalid JSON">>, warnings |-> <<>>]
    ELSE IF line.json.kind = "number"
    THEN [raised |-> "TypeError"]
    ELSE IF line.json.kind = "array" \/ line.json.result.kind = "absent"
    THEN [valid |-> FALSE, errors |-> <<"Missing 'result' field">>, warnings |-> <<>>]
    ELSE IF line.json.result.kind \notin {"list", "dict"}
    THEN [valid |-> FALSE, errors |-> <<"'result' field must be an array or object">>,
          warnings |-> <<>>]
    ELSE LET data == line.json
             result_list == IF data.result.kind = "list" THEN data.result.items
                            ELSE <<"dict">>
             errors == CollectErrors(data, result_list)
             warnings == CollectWarnings(data, result_list)
         IN  [valid |-> Len(errors) = 0, errors |-> errors, warnings |-> warnings]

-----------------------------------------------------------------------------
(* Specification SpecValidate: validate_json_result on sample RESULT lines.*)

AddrTexts ==
    { <<>>,
      <<"1", "9", "2", ".", "0", ".", "2", ".", "1">>,
      <<"3", "0", "0", ".", "1", ".", "1", ".", "1">>,
      <<"2", "0", "0", "1", ":", "d", "b", "8", ":", ":", "1">>,
      <<":", ":", "f", "f", "f", "f", ":", "1", "9", "2", ".", "0", ".", "2", ".", "1">>,
      <<"1", ":", ":", "2", ":", ":", "3">> }

AddrValues == {Absent} \cup {<<"str", t>> : t \in AddrTexts}

AfValues == {Absent, <<"int", 4>>, <<"int", 6>>, <<"int", 7>>,
             <<"str", <<"4">>>>, <<"str", <<"A", "F", "_", "I", "N", "E", "T">>>>}

ResultLists ==
    UNION {[1..n -> {"dict", "other"}] : n \in 0..MaxResults}

ResultValues ==
    {[kind |-> "absent"], [kind |-> "dict"], [kind |-> "other"]}
    \cup {[kind |-> "list", items |-> l] : l \in ResultLists}

JsonValues ==
    {[kind |-> k] : k \in {"invalid", "number", "array"}}
    \cup {[kind |-> "object", af |-> a, dst_addr |-> d, src_addr |-> c, result |-> r] :
            a \in AfValues, d \in AddrValues, c \in AddrValues, r \in ResultValues}

InitValidate ==
    /\ v_line \in {[prefix |-> p, json |-> j] : p \in BOOLEAN, j \in JsonValues}
    /\ v_result = None
    /\ v_pc = "call"
    /\ sockIdle
    /\ convIdle
    /\ mainIdle

CallValidateJsonResult ==
    /\ v_pc = "call"
    /\ v_result' = validate_json_result(v_line)
    /\ v_pc' = "returned"
    /\ UNCHANGED <<v_line, sockVars, convVars, mainVars>>

NextValidate == CallValidateJsonResult

SpecValidate == InitValidate /\ [][NextValidate]_vars

-----------------------------------------------------------------------------
(* Properties of validate_json_result, checked under SpecValidate. *)

\* C8: a line is reported valid only when af is 4 and dst_addr and src_addr
\* both parse as IPv4 text, or af is 6 and both parse as IPv6 text; any other
\* af value makes the line invalid, whatever the shape of the result field
\* and also for empty address strings.
C8_ValidOnlyIfFamilyConsistent ==
    (v_pc = "returned" /\ "valid" \in DOMAIN v_result /\ v_result.valid)
        => LET data == v_line.json
               parses4(v) == v[1] = "str" /\ is_valid_ipv4(v[2])
               parses6(v) == v[1] = "str" /\ is_valid_ipv6(v[2])
           IN  \/ /\ EqualsInt(data.af, 4)
                  /\ parses4(data.dst_addr)
                  /\ parses4(data.src_addr)
               \/ /\ EqualsInt(data.af, 6)
                  /\ parses6(data.dst_addr)
                  /\ parses6(data.src_addr)

====
